---------------------------- MODULE Spec2Model ----------------------------
(***************************************************************************)
(* DermaScan-AI: the request pipeline of src/app.py (rate limiter, upload  *)
(* validation with temporary-file cleanup, prediction annotation) and the  *)
(* result display of src/skin_cancer_detector.py.                          *)
(*                                                                         *)
(* Strings the code inspects (labels, file names, extensions) are tuples   *)
(* of one-character strings, so that lower(), Path.suffix and the `in`     *)
(* substring test are computed and not assumed.  Strings the code only     *)
(* compares or forwards (MIME types, messages, risk tiers) are strings.    *)
(***************************************************************************)
EXTENDS Integers, Sequences, FiniteSets, TLC

(***************************************************************************)
(* Bounds of the model.  RATE_LIMIT_MAX and RATE_LIMIT_WINDOW are the      *)
(* program's 20 requests and 60 seconds (src/app.py:37-38) scaled down;    *)
(* time is counted in whole ticks.                                         *)
(***************************************************************************)
RATE_LIMIT_MAX == 2
RATE_LIMIT_WINDOW == 2
MaxTime == 4
MaxReqTime == 3
MaxVocab == 2
MaxTopK == 2

\* top_k=5 of the web handler's call of run_prediction
TOP_K == 5

Min(a, b) == IF a <= b THEN a ELSE b

-----------------------------------------------------------------------------
(* Strings as tuples of characters *)

UpperChars == <<"A","B","C","D","E","F","G","H","I","J","K","L","M",
                "N","O","P","Q","R","S","T","U","V","W","X","Y","Z">>
LowerChars == <<"a","b","c","d","e","f","g","h","i","j","k","l","m",
                "n","o","p","q","r","s","t","u","v","w","x","y","z">>

LowerChar(c) ==
    IF \E i \in 1..Len(UpperChars) : UpperChars[i] = c
    THEN LowerChars[CHOOSE i \in 1..Len(UpperChars) : UpperChars[i] = c]
    ELSE c

\* str.lower()
Lower(s) == [i \in 1..Len(s) |-> LowerChar(s[i])]

\* Python's `sub in s` on strings
Contains(s, sub) ==
    \E i \in 0..(Len(s) - Len(sub)) :
        \A j \in 1..Len(sub) : s[i + j] = sub[j]

\* index of the last occurrence of character c in s, 0 when there is none
RFind(s, c) ==
    IF \E i \in 1..Len(s) : s[i] = c
    THEN CHOOSE i \in 1..Len(s) : s[i] = c /\ \A j \in (i+1)..Len(s) : s[j] # c
    ELSE 0

\* the final path component
PathName(s) == SubSeq(s, RFind(s, "/") + 1, Len(s))

\* pathlib's Path(s).suffix: from the last dot of the final component, unless
\* that dot is its first or its last character
PathSuffix(s) ==
    LET name == PathName(s)
        i == RFind(name, ".")
    IN IF 1 < i /\ i < Len(name) THEN SubSeq(name, i, Len(name)) ELSE <<>>

-----------------------------------------------------------------------------
(* Configuration of src/app.py *)

E_jpg == <<".","j","p","g">>
E_jpeg == <<".","j","p","e","g">>
E_png == <<".","p","n","g">>
E_bmp == <<".","b","m","p">>
E_tiff == <<".","t","i","f","f">>
E_webp == <<".","w","e","b","p">>

ALLOWED_EXTENSIONS == {E_jpg, E_jpeg, E_png, E_bmp, E_tiff, E_webp}

ALLOWED_MIMETYPES ==
    {"image/jpeg", "image/png", "image/bmp", "image/tiff", "image/webp"}

K_actinic_keratosis == <<"a","c","t","i","n","i","c"," ","k","e","r","a","t","o","s","i","s">>
K_basal_cell_carcinoma == <<"b","a","s","a","l"," ","c","e","l","l"," ","c","a","r","c","i","n","o","m","a">>
K_dermatofibroma == <<"d","e","r","m","a","t","o","f","i","b","r","o","m","a">>
K_melanoma == <<"m","e","l","a","n","o","m","a">>
K_nevus == <<"n","e","v","u","s">>
K_pigmented_benign_keratosis == <<"p","i","g","m","e","n","t","e","d"," ","b","e","n","i","g","n"," ","k","e","r","a","t","o","s","i","s">>
K_squamous_cell_carcinoma == <<"s","q","u","a","m","o","u","s"," ","c","e","l","l"," ","c","a","r","c","i","n","o","m","a">>
K_vascular_lesion == <<"v","a","s","c","u","l","a","r"," ","l","e","s","i","o","n">>

\* CLASS_INFO in its insertion order, which is the order dict.items() iterates in
CLASS_INFO == <<
    [key |-> K_actinic_keratosis, risk |-> "Pre-cancerous",
     description |-> "Rough, scaly patch caused by sun damage. Can progress to squamous cell carcinoma.",
     recommendation |-> "Consult a dermatologist for evaluation and possible treatment."],
    [key |-> K_basal_cell_carcinoma, risk |-> "Malignant",
     description |-> "Most common skin cancer. Slow-growing, rarely metastasizes, but requires treatment.",
     recommendation |-> "Seek immediate dermatological evaluation for biopsy and treatment options."],
    [key |-> K_dermatofibroma, risk |-> "Benign",
     description |-> "Harmless, firm nodule. No treatment necessary unless symptomatic.",
     recommendation |-> "Monitor for changes. No urgent action needed."],
    [key |-> K_melanoma, risk |-> "Malignant",
     description |-> "Most dangerous skin cancer. Early detection is critical for survival.",
     recommendation |-> "Urgent: Consult a dermatologist or oncologist immediately."],
    [key |-> K_nevus, risk |-> "Benign",
     description |-> "Common mole. Usually harmless but should be monitored for changes.",
     recommendation |-> "Use the ABCDE rule to monitor. Consult a doctor if changes occur."],
    [key |-> K_pigmented_benign_keratosis, risk |-> "Benign",
     description |-> "Non-cancerous growth (e.g., seborrheic keratosis). Cosmetic concern only.",
     recommendation |-> "No medical treatment needed. Can be removed for cosmetic reasons."],
    [key |-> K_squamous_cell_carcinoma, risk |-> "Malignant",
     description |-> "Second most common skin cancer. Can metastasize if untreated.",
     recommendation |-> "Seek prompt dermatological evaluation for biopsy and treatment."],
    [key |-> K_vascular_lesion, risk |-> "Benign",
     description |-> "Blood vessel abnormality (e.g., hemangioma). Usually harmless.",
     recommendation |-> "Monitor for changes. Treatment usually not required."] >>

\* the value None
None == [none |-> TRUE]

-----------------------------------------------------------------------------
(* Helpers of src/app.py *)

\* a variant of KeyMatches: only a key contained in the label matches
KeyMatches_OneWay(i, label_lower) == Contains(label_lower, CLASS_INFO[i].key)

\* whether CLASS_INFO's i-th key matches the lower-cased label
KeyMatches(i, label_lower) ==
    Contains(label_lower, CLASS_INFO[i].key) \/ Contains(CLASS_INFO[i].key, label_lower)

\* _match_class_info: the first entry, in table order, that matches; else None
_match_class_info(label) ==
    LET label_lower == Lower(label)
        hits == {i \in 1..Len(CLASS_INFO) : KeyMatches(i, label_lower)}
    IN IF hits = {} THEN None
       ELSE CLASS_INFO[CHOOSE i \in hits : \A j \in hits : i <= j]

\* Python's round(x, 2) of prob * 100, with prob in millionths and the result in
\* hundredths of a percent: the nearest, a tie going to the even one
RoundConfidence(ppm) ==
    LET q == ppm \div 100
        r == ppm % 100
    IN IF r > 50 \/ (r = 50 /\ q % 2 = 1) THEN q + 1 ELSE q

\* one entry of run_prediction's result list
Annotate(entry) ==
    LET info == _match_class_info(entry.label)
    IN [label |-> entry.label,
        confidence |-> RoundConfidence(entry.prob),
        risk |-> IF info # None THEN info.risk ELSE "Unknown",
        description |-> IF info # None THEN info.description ELSE "",
        recommendation |-> IF info # None THEN info.recommendation ELSE ""]

\* torch.topk(probs, k=min(top_k, len(probs))): the index sequences it may return,
\* by descending probability; the order among equal probabilities is the library's
TopKOrders(d, k) ==
    LET n == Min(k, Len(d))
    IN {s \in [1..n -> 1..Len(d)] :
          /\ \A i, j \in 1..n : i # j => s[i] # s[j]
          /\ \A i, j \in 1..n : i < j => d[s[i]].prob >= d[s[j]].prob
          /\ \A m \in 1..Len(d) :
                (\A i \in 1..n : s[i] # m) => \A i \in 1..n : d[m].prob <= d[s[i]].prob}

\* run_prediction's loop over the chosen indices
run_prediction(d, order) == [i \in 1..Len(order) |-> Annotate(d[order[i]])]

-----------------------------------------------------------------------------
(* src/skin_cancer_detector.py *)

KW_carcinoma == <<"c","a","r","c","i","n","o","m","a">>
KW_actinic == <<"a","c","t","i","n","i","c">>

\* the keyword list of display_results
Keywords == <<K_melanoma, KW_carcinoma, KW_actinic>>

\* predict's loop: label and raw confidence of the chosen indices
predict(d, order) ==
    [i \in 1..Len(order) |-> [label |-> d[order[i]].label, confidence |-> d[order[i]].prob]]

\* display_results' lookup loop for one result: the risk line it prints, None when
\* no key matches (the script's own CLASS_INFO has the keys, order and risks of
\* app.py's, without the recommendations)
DisplayRisk(result) ==
    LET l == Lower(result.label)
        hits == {i \in 1..Len(CLASS_INFO) :
                    Contains(l, CLASS_INFO[i].key) \/ Contains(CLASS_INFO[i].key, l)}
    IN IF hits = {} THEN None
       ELSE CLASS_INFO[CHOOSE i \in hits : \A j \in hits : i <= j].risk

\* a variant of IsConcerning: any returned label may raise the flag
IsConcerning_AnyEntry(results) ==
    \E n \in 1..Len(results), i \in 1..Len(Keywords) :
        Contains(Lower(results[n].label), Keywords[i])

\* display_results' is_concerning
IsConcerning(results) ==
    LET top_label == Lower(results[1].label)
    IN \E i \in 1..Len(Keywords) : Contains(top_label, Keywords[i])

-----------------------------------------------------------------------------
(* The rate limiter of src/app.py *)

\* request.remote_addr values; "" stands for an absent address
RemoteAddrs == {"10.0.0.1", ""}

\* ip = request.remote_addr or "unknown"
ClientKey(addr) == IF addr = "" THEN "unknown" ELSE addr

Keys == {ClientKey(a) : a \in RemoteAddrs}

\* a variant of Prune: a timestamp exactly RATE_LIMIT_WINDOW old is kept
Prune_Inclusive(w, t) == SelectSeq(w, LAMBDA x : t - x <= RATE_LIMIT_WINDOW)

\* a variant of Prune: nothing is discarded
Prune_KeepsAll(w, t) == w

\* the list comprehension that prunes a window
Prune(w, t) == SelectSeq(w, LAMBDA x : t - x < RATE_LIMIT_WINDOW)

\* the length test that rejects
WindowFull(w) == Len(w) >= RATE_LIMIT_MAX

\* a variant of Decorated: the timestamp is appended before the length test, so a
\* rejected check is recorded too
Decorated_RecordsRejected(st, ip, t) ==
    LET pruned == Prune(st[ip], t)
        st1 == [st EXCEPT ![ip] = Append(pruned, t)]
    IN [store |-> st1, admitted |-> ~WindowFull(pruned)]

\* a variant of Decorated: an admitted check is not recorded
Decorated_NoRecord(st, ip, t) ==
    LET pruned == Prune(st[ip], t)
    IN [store |-> [st EXCEPT ![ip] = pruned], admitted |-> ~WindowFull(pruned)]

\* decorated() up to the call of f, run without interruption: the store it leaves
\* and whether f is called
Decorated(st, ip, t) ==
    LET pruned == Prune(st[ip], t)
        st1 == [st EXCEPT ![ip] = pruned]
    IN IF WindowFull(st1[ip])
       THEN [store |-> st1, admitted |-> FALSE]
       ELSE [store |-> [st1 EXCEPT ![ip] = Append(st1[ip], t)], admitted |-> TRUE]

-----------------------------------------------------------------------------
VARIABLES
    now,        \* time.time(), in ticks
    store,      \* _rate_limit_store
    admlog,     \* history: per key, the times of all admitted checks
    last,       \* history: the last admission check made
    thr,        \* concurrent checks: each thread's position and locals
    req,        \* the request being handled by api_predict, and its position
    files,      \* the files in UPLOAD_DIR
    invalidRun, \* history: per key, how many of its latest admitted requests in a
                \* row ended with a 400 (counted up to RATE_LIMIT_MAX)
    lab         \* prediction and display: inputs and results

vars == <<now, store, admlog, last, thr, req, files, invalidRun, lab>>

EmptyStore == [k \in Keys |-> <<>>]
NoCall == [ip |-> "", at |-> 0, admitted |-> FALSE, before |-> EmptyStore]

-----------------------------------------------------------------------------
(* Sequential admission checks *)

RateInit ==
    /\ now = 0
    /\ store = EmptyStore
    /\ admlog = EmptyStore
    /\ last = NoCall
    /\ thr = <<>>
    /\ req = <<>>
    /\ files = {}
    /\ invalidRun = <<>>
    /\ lab = <<>>

\* time passes
Tick ==
    /\ now < MaxTime
    /\ now' = now + 1
    /\ UNCHANGED <<store, admlog, last, thr, req, files, invalidRun, lab>>

\* one call of decorated() for a request from addr
Admit(addr) ==
    LET ip == ClientKey(addr)
        r == Decorated(store, ip, now)
    IN /\ store' = r.store
       /\ admlog' = IF r.admitted THEN [admlog EXCEPT ![ip] = Append(@, now)] ELSE admlog
       /\ last' = [ip |-> ip, at |-> now, admitted |-> r.admitted, before |-> store]
       /\ UNCHANGED <<now, thr, req, files, invalidRun, lab>>

RateNext == Tick \/ \E addr \in RemoteAddrs : Admit(addr)

SpecRate == RateInit /\ [][RateNext]_vars

-----------------------------------------------------------------------------
(* Concurrent admission checks: decorated() run by several request threads,  *)
(* which may be switched between any two of its statements                   *)

NThreads == 3
MaxConcTime == 1

Threads == 1..NThreads

Fresh0 == [pc |-> "start", ip |-> "", now |-> 0, pruned |-> <<>>]

ConcInit ==
    /\ now = 0
    /\ store = EmptyStore
    /\ admlog = EmptyStore
    /\ last = NoCall
    /\ thr = [t \in Threads |-> Fresh0]
    /\ req = <<>>
    /\ files = {}
    /\ invalidRun = <<>>
    /\ lab = <<>>

\* time passes
ConcTick ==
    /\ now < MaxConcTime
    /\ now' = now + 1
    /\ UNCHANGED <<store, admlog, last, thr, req, files, invalidRun, lab>>

\* ip = request.remote_addr or "unknown"; now = time.time()
T_Begin(t, addr) ==
    /\ thr[t].pc = "start"
    /\ thr' = [thr EXCEPT ![t] = [@ EXCEPT !.pc = "prune", !.ip = ClientKey(addr), !.now = now]]
    /\ UNCHANGED <<now, store, admlog, last, req, files, invalidRun, lab>>

\* the list comprehension builds the pruned list from the stored one
T_PruneRead(t) ==
    /\ thr[t].pc = "prune"
    /\ thr' = [thr EXCEPT ![t] = [@ EXCEPT !.pc = "assign",
                                            !.pruned = Prune(store[thr[t].ip], thr[t].now)]]
    /\ UNCHANGED <<now, store, admlog, last, req, files, invalidRun, lab>>

\* _rate_limit_store[ip] = <the pruned list>
T_PruneStore(t) ==
    /\ thr[t].pc = "assign"
    /\ store' = [store EXCEPT ![thr[t].ip] = thr[t].pruned]
    /\ thr' = [thr EXCEPT ![t] = [@ EXCEPT !.pc = "check", !.pruned = <<>>]]
    /\ UNCHANGED <<now, admlog, last, req, files, invalidRun, lab>>

\* if len(_rate_limit_store[ip]) >= RATE_LIMIT_MAX: return ..., 429
T_Check(t) ==
    /\ thr[t].pc = "check"
    /\ thr' = [thr EXCEPT ![t] = [@ EXCEPT !.pc =
                    IF WindowFull(store[thr[t].ip]) THEN "rejected" ELSE "append"]]
    /\ UNCHANGED <<now, store, admlog, last, req, files, invalidRun, lab>>

\* _rate_limit_store[ip].append(now); return f(...)
T_Append(t) ==
    /\ thr[t].pc = "append"
    /\ store' = [store EXCEPT ![thr[t].ip] = Append(@, thr[t].now)]
    /\ admlog' = [admlog EXCEPT ![thr[t].ip] = Append(@, thr[t].now)]
    /\ thr' = [thr EXCEPT ![t] = [@ EXCEPT !.pc = "admitted"]]
    /\ UNCHANGED <<now, last, req, files, invalidRun, lab>>

ConcNext ==
    \/ ConcTick
    \/ \E t \in Threads :
          \/ \E addr \in RemoteAddrs : T_Begin(t, addr)
          \/ T_PruneRead(t)
          \/ T_PruneStore(t)
          \/ T_Check(t)
          \/ T_Append(t)

SpecConc == ConcInit /\ [][ConcNext]_vars

-----------------------------------------------------------------------------
(* POST /api/predict: api_predict under the rate_limit decorator, one request *)
(* at a time, one statement group per step                                    *)

F_empty == <<>>
F_a_jpg == <<"a",".","j","p","g">>
F_b_PNG == <<"b",".","P","N","G">>
F_c_exe == <<"c",".","e","x","e">>
F_dot_jpg == <<".","j","p","g">>
F_d_jpg_exe == <<"d",".","j","p","g",".","e","x","e">>

\* request.remote_addr of the requests handled
ReqAddrs == {"10.0.0.1"}

\* file.filename values
Filenames == {F_empty, F_a_jpg, F_b_PNG, F_c_exe, F_dot_jpg, F_d_jpg_exe}

\* file.content_type values; "" stands for no declared type
ContentTypes == {"", "image/png", "text/plain"}

\* what the uploaded bytes are: a genuine image, not an image at all, or an image
\* that passes verify() and fails to decode
ByteKinds == {"image", "garbage", "truncated"}

\* uuid.uuid4().hex values
Uuids == {"u1", "u2"}

MSG_429 == "Too many requests. Please wait a minute and try again."
MSG_413 == "File too large. Maximum size is 10 MB."
MSG_NO_IMAGE == "No image file provided."
MSG_NO_FILE == "No file selected."
MSG_UNSUPPORTED == "Unsupported format"
MSG_INVALID_TYPE == "Invalid file type."
MSG_NOT_IMAGE == "The uploaded file is not a valid image."
MSG_500 == "An error occurred while processing the image. Please try again."

\* the classifier's output in the handled requests
SampleDist == <<
    [label |-> K_melanoma, prob |-> 620000],
    [label |-> K_nevus, prob |-> 200000],
    [label |-> K_dermatofibroma, prob |-> 100000],
    [label |-> K_vascular_lesion, prob |-> 50000],
    [label |-> K_basal_cell_carcinoma, prob |-> 30000] >>

Idle ==
    [pc |-> "idle", addr |-> "", oversized |-> FALSE, hasImage |-> FALSE,
     filename |-> <<>>, content_type |-> "", bytes |-> "image",
     at |-> 0, before |-> <<>>, admitted |-> FALSE,
     ext |-> <<>>, filepath |-> None, status |-> 0, error |-> "", results |-> <<>>,
     ran |-> <<>>, created |-> FALSE, saved |-> FALSE, invoked |-> FALSE,
     raised |-> FALSE, nresp |-> 0]

ReqInit ==
    /\ now = 0
    /\ store = EmptyStore
    /\ admlog = EmptyStore
    /\ last = NoCall
    /\ thr = <<>>
    /\ req = Idle
    /\ files = {}
    /\ invalidRun = [k \in Keys |-> 0]
    /\ lab = <<>>

\* the history of a finished request
NoteOutcome(run, r, status) ==
    IF ~r.admitted THEN run
    ELSE [run EXCEPT ![ClientKey(r.addr)] =
              IF status = 400 THEN Min(@ + 1, RATE_LIMIT_MAX) ELSE 0]

\* a return statement outside the try block, or the errorhandler's
Respond(status, error) ==
    /\ req' = [req EXCEPT !.pc = "done", !.status = status, !.error = error,
                          !.nresp = @ + 1]
    /\ invalidRun' = NoteOutcome(invalidRun, req, status)

\* a variant of ReturnInTry: the pending response is lost on the way through the
\* finally clause
ReturnInTry_Overridden(r, status, error) == [r EXCEPT !.pc = "finally"]

\* a return statement inside the try block: the finally clause runs first
ReturnInTry(r, status, error) ==
    [r EXCEPT !.pc = "finally", !.status = status, !.error = error]

\* time passes (the handler reads the clock once, in the admission check)
ReqTick ==
    /\ req.pc = "idle"
    /\ now < MaxReqTime
    /\ now' = now + 1
    /\ UNCHANGED <<store, admlog, last, thr, req, files, invalidRun, lab>>

\* a request arrives: a body over MAX_CONTENT_LENGTH, a form without an image
\* part, or a form with one
Receive(addr, oversized, hasImage, filename, ctype, bytes) ==
    /\ req.pc = "idle"
    /\ req' = [Idle EXCEPT !.pc = "rate", !.addr = addr, !.oversized = oversized,
                           !.hasImage = hasImage, !.filename = filename,
                           !.content_type = ctype, !.bytes = bytes]
    /\ UNCHANGED <<now, store, admlog, last, thr, files, invalidRun, lab>>

\* decorated(): the admission check
RateCheck ==
    /\ req.pc = "rate"
    /\ LET ip == ClientKey(req.addr)
           r == Decorated(store, ip, now)
           q == [req EXCEPT !.at = now, !.before = store[ip], !.admitted = r.admitted]
       IN /\ store' = r.store
          /\ IF r.admitted
             THEN /\ admlog' = [admlog EXCEPT ![ip] = Append(@, now)]
                  /\ req' = [q EXCEPT !.pc = "files"]
                  /\ UNCHANGED invalidRun
             ELSE /\ admlog' = admlog
                  /\ req' = [q EXCEPT !.pc = "done", !.status = 429, !.error = MSG_429,
                                      !.nresp = @ + 1]
                  /\ UNCHANGED invalidRun
    /\ UNCHANGED <<now, last, thr, files, lab>>

\* if "image" not in request.files; reading request.files of a body over
\* MAX_CONTENT_LENGTH raises 413, which request_entity_too_large answers
CheckPresence ==
    /\ req.pc = "files"
    /\ IF req.oversized THEN Respond(413, MSG_413)
       ELSE IF ~req.hasImage
            THEN LET q == [req EXCEPT !.ran = Append(@, "presence")]
                 IN /\ req' = [q EXCEPT !.pc = "done", !.status = 400,
                                        !.error = MSG_NO_IMAGE, !.nresp = @ + 1]
                    /\ invalidRun' = NoteOutcome(invalidRun, req, 400)
            ELSE /\ req' = [req EXCEPT !.pc = "filename", !.ran = Append(@, "presence")]
                 /\ UNCHANGED invalidRun
    /\ UNCHANGED <<now, store, admlog, last, thr, files, lab>>

\* if file.filename == ""
CheckFilename ==
    /\ req.pc = "filename"
    /\ LET q == [req EXCEPT !.ran = Append(@, "filename")]
       IN IF req.filename = <<>>
          THEN /\ req' = [q EXCEPT !.pc = "done", !.status = 400, !.error = MSG_NO_FILE,
                                   !.nresp = @ + 1]
               /\ invalidRun' = NoteOutcome(invalidRun, req, 400)
          ELSE /\ req' = [q EXCEPT !.pc = "ext"]
               /\ UNCHANGED invalidRun
    /\ UNCHANGED <<now, store, admlog, last, thr, files, lab>>

\* a variant of Ext: the suffix is not lower-cased
Ext_CaseSensitive(filename) == PathSuffix(filename)

\* ext = Path(file.filename).suffix.lower()
Ext(filename) == Lower(PathSuffix(filename))

\* if ext not in ALLOWED_EXTENSIONS
CheckExtension ==
    /\ req.pc = "ext"
    /\ LET q == [req EXCEPT !.ran = Append(@, "extension"), !.ext = Ext(req.filename)]
       IN IF q.ext \notin ALLOWED_EXTENSIONS
          THEN /\ req' = [q EXCEPT !.pc = "done", !.status = 400, !.error = MSG_UNSUPPORTED,
                                   !.nresp = @ + 1]
               /\ invalidRun' = NoteOutcome(invalidRun, req, 400)
          ELSE /\ req' = [q EXCEPT !.pc = "mime"]
               /\ UNCHANGED invalidRun
    /\ UNCHANGED <<now, store, admlog, last, thr, files, lab>>

\* file.content_type and file.content_type not in ALLOWED_MIMETYPES
MimeRejected(ctype) == ctype # "" /\ ctype \notin ALLOWED_MIMETYPES

\* the MIME test
CheckMime ==
    /\ req.pc = "mime"
    /\ LET q == [req EXCEPT !.ran = Append(@, "mime")]
       IN IF MimeRejected(req.content_type)
          THEN /\ req' = [q EXCEPT !.pc = "done", !.status = 400, !.error = MSG_INVALID_TYPE,
                                   !.nresp = @ + 1]
               /\ invalidRun' = NoteOutcome(invalidRun, req, 400)
          ELSE /\ req' = [q EXCEPT !.pc = "name"]
               /\ UNCHANGED invalidRun
    /\ UNCHANGED <<now, store, admlog, last, thr, files, lab>>

\* filename = f"{uuid.uuid4().hex}{ext}"; filepath = UPLOAD_DIR / filename
ChooseName(id) ==
    /\ req.pc = "name"
    /\ req' = [req EXCEPT !.pc = "save", !.filepath = [id |-> id, ext |-> req.ext]]
    /\ UNCHANGED <<now, store, admlog, last, thr, files, invalidRun, lab>>

\* file.save(filepath): it succeeds, or raises before the file exists, or raises
\* with part of the file written
Save(outcome) ==
    /\ req.pc = "save"
    /\ IF outcome = "ok"
       THEN /\ files' = files \cup {req.filepath}
            /\ req' = [req EXCEPT !.pc = "verify", !.created = TRUE, !.saved = TRUE]
       ELSE /\ files' = IF outcome = "partial" THEN files \cup {req.filepath} ELSE files
            /\ req' = [ReturnInTry(req, 500, MSG_500) EXCEPT
                            !.created = (outcome = "partial")]
    /\ UNCHANGED <<now, store, admlog, last, thr, invalidRun, lab>>

\* _validate_image_content: Image.open and verify() raise on bytes that are no image
\* or on a missing file, and every exception is turned into False
_validate_image_content(path, bytes) == path \in files /\ bytes # "garbage"

\* if not _validate_image_content(filepath): return ..., 400
Verify ==
    /\ req.pc = "verify"
    /\ LET q == [req EXCEPT !.ran = Append(@, "content")]
       IN req' = IF ~_validate_image_content(req.filepath, req.bytes)
                 THEN ReturnInTry(q, 400, MSG_NOT_IMAGE)
                 ELSE [q EXCEPT !.pc = "open"]
    /\ UNCHANGED <<now, store, admlog, last, thr, files, invalidRun, lab>>

\* image = Image.open(filepath).convert("RGB")
OpenConvert ==
    /\ req.pc = "open"
    /\ req' = IF req.bytes # "image"
              THEN ReturnInTry(req, 500, MSG_500)
              ELSE [req EXCEPT !.pc = "predict"]
    /\ UNCHANGED <<now, store, admlog, last, thr, files, invalidRun, lab>>

\* results = run_prediction(image, top_k=5): the classifier answers or raises
Predict(raises) ==
    /\ req.pc = "predict"
    /\ IF raises
       THEN req' = [ReturnInTry(req, 500, MSG_500) EXCEPT !.invoked = TRUE, !.raised = TRUE]
       ELSE \E order \in TopKOrders(SampleDist, TOP_K) :
              req' = [req EXCEPT !.pc = "finally", !.invoked = TRUE,
                                 !.results = run_prediction(SampleDist, order)]
    /\ UNCHANGED <<now, store, admlog, last, thr, files, invalidRun, lab>>

\* a variant of Cleanup: the file is left in place
Cleanup_Skipped(fs, path) == fs

\* finally: if filepath.exists(): filepath.unlink()
Cleanup(fs, path) == IF path \in fs THEN fs \ {path} ELSE fs

\* the finally clause, then the pending return, or the return of the predictions
Finally ==
    /\ req.pc = "finally"
    /\ files' = Cleanup(files, req.filepath)
    /\ LET status == IF req.status = 0 THEN 200 ELSE req.status
       IN /\ req' = [req EXCEPT !.pc = "done", !.status = status, !.nresp = @ + 1]
          /\ invalidRun' = NoteOutcome(invalidRun, req, status)
    /\ UNCHANGED <<now, store, admlog, last, thr, lab>>

\* the response has been sent; the worker waits for the next request
Finish ==
    /\ req.pc = "done"
    /\ req' = Idle
    /\ UNCHANGED <<now, store, admlog, last, thr, files, invalidRun, lab>>

ReqNext ==
    \/ ReqTick
    \/ \E addr \in ReqAddrs :
          \/ Receive(addr, TRUE, FALSE, F_empty, "", "image")
          \/ Receive(addr, FALSE, FALSE, F_empty, "", "image")
          \/ \E f \in Filenames, c \in ContentTypes, b \in ByteKinds :
                Receive(addr, FALSE, TRUE, f, c, b)
    \/ RateCheck
    \/ CheckPresence
    \/ CheckFilename
    \/ CheckExtension
    \/ CheckMime
    \/ \E id \in Uuids : ChooseName(id)
    \/ \E o \in {"ok", "fail", "partial"} : Save(o)
    \/ Verify
    \/ OpenConvert
    \/ \E raises \in BOOLEAN : Predict(raises)
    \/ Finally
    \/ Finish

SpecReq == ReqInit /\ [][ReqNext]_vars

-----------------------------------------------------------------------------
(* Prediction and display: run_prediction of src/app.py, and predict and      *)
(* display_results of src/skin_cancer_detector.py, on classifier outputs      *)

L_Melanocytic_Nevus == <<"M","e","l","a","n","o","c","y","t","i","c"," ","N","e","v","u","s">>
L_xyz_unknown_123 == <<"x","y","z","-","u","n","k","n","o","w","n","-","1","2","3">>
L_Basal_cell_carcinoma == <<"B","a","s","a","l"," ","c","e","l","l"," ","c","a","r","c","i","n","o","m","a">>
L_Dermatofibroma == <<"D","e","r","m","a","t","o","f","i","b","r","o","m","a">>
L_keratosis == <<"k","e","r","a","t","o","s","i","s">>
L_basal_cell_carcinoma_hf == <<"b","a","s","a","l","_","c","e","l","l","_","c","a","r","c","i","n","o","m","a">>
L_MELANOMA == <<"M","E","L","A","N","O","M","A">>

\* labels of model.config.id2label
Labels == {K_melanoma, L_Melanocytic_Nevus, L_xyz_unknown_123, L_Basal_cell_carcinoma,
           L_Dermatofibroma, L_keratosis, L_basal_cell_carcinoma_hf, L_MELANOMA}

\* probabilities, in millionths
Probs == {200000, 620000}

\* classifier outputs: up to MaxVocab distinct labels, each with a probability
Dists ==
    UNION {{d \in [1..n -> [label : Labels, prob : Probs]] :
               \A i, j \in 1..n : i # j => d[i].label # d[j].label} : n \in 1..MaxVocab}

\* --top_k values, and the web handler's
TopKs == (1..MaxTopK) \cup {TOP_K}

LabInit ==
    /\ now = 0
    /\ store = EmptyStore
    /\ admlog = EmptyStore
    /\ last = NoCall
    /\ thr = <<>>
    /\ req = <<>>
    /\ files = {}
    /\ invalidRun = <<>>
    /\ \E d \in Dists \cup {SampleDist}, k \in TopKs :
          lab = [pc |-> "input", dist |-> d, top_k |-> k, predictions |-> <<>>,
                 results |-> <<>>, risks |-> <<>>, is_concerning |-> FALSE]

\* app.py: run_prediction(image, top_k=5)
RunPrediction ==
    /\ lab.pc = "input"
    /\ \E order \in TopKOrders(lab.dist, TOP_K) :
          lab' = [lab EXCEPT !.pc = "web", !.predictions = run_prediction(lab.dist, order)]
    /\ UNCHANGED <<now, store, admlog, last, thr, req, files, invalidRun>>

\* skin_cancer_detector.py: predict(processor, model, image, top_k=args.top_k)
CliPredict ==
    /\ lab.pc = "input"
    /\ \E order \in TopKOrders(lab.dist, lab.top_k) :
          lab' = [lab EXCEPT !.pc = "cli", !.results = predict(lab.dist, order)]
    /\ UNCHANGED <<now, store, admlog, last, thr, req, files, invalidRun>>

\* skin_cancer_detector.py: display_results(results, args.image)
DisplayResults ==
    /\ lab.pc = "cli"
    /\ lab' = [lab EXCEPT !.pc = "shown",
                          !.risks = [i \in 1..Len(lab.results) |-> DisplayRisk(lab.results[i])],
                          !.is_concerning = IsConcerning(lab.results)]
    /\ UNCHANGED <<now, store, admlog, last, thr, req, files, invalidRun>>

LabNext == RunPrediction \/ CliPredict \/ DisplayResults

SpecLabel == LabInit /\ [][LabNext]_vars

-----------------------------------------------------------------------------
(* Claims about sequential admission checks (SpecRate) *)

\* the entries of window w that are less than RATE_LIMIT_WINDOW old at time t
Fresh(w, t) == {i \in 1..Len(w) : t - w[i] < RATE_LIMIT_WINDOW}

\* the admitted checks of the last call's key that came before that call
PriorAdmitted ==
    LET log == admlog[last.ip]
    IN IF last.admitted THEN SubSeq(log, 1, Len(log) - 1) ELSE log

\* C2: a check is rejected iff at least RATE_LIMIT_MAX earlier checks of its key were
\* admitted less than RATE_LIMIT_WINDOW before it; when every earlier admitted check
\* is at least RATE_LIMIT_WINDOW old, the check is admitted
C2_WindowProperty ==
    last.ip # "" =>
        /\ (~last.admitted) <=> (Cardinality(Fresh(PriorAdmitted, last.at)) >= RATE_LIMIT_MAX)
        /\ Fresh(PriorAdmitted, last.at) = {} => last.admitted

\* a key whose window was full is admitted again after the window has passed
C2_Witness ==
    /\ last.ip # ""
    /\ last.admitted
    /\ Len(PriorAdmitted) >= RATE_LIMIT_MAX
    /\ Fresh(PriorAdmitted, last.at) = {}

\* C8 as stated: in every state every stored timestamp is less than
\* RATE_LIMIT_WINDOW older than the current time
C8_AllStoredFresh ==
    \A k \in Keys : \A i \in 1..Len(store[k]) : now - store[k][i] < RATE_LIMIT_WINDOW

\* C8 amended: right after a check of a key, every timestamp in that key's window is
\* less than RATE_LIMIT_WINDOW older than the time of the check
C8_CheckedKeyFresh ==
    last.ip # "" =>
        \A i \in 1..Len(store[last.ip]) : last.at - store[last.ip][i] < RATE_LIMIT_WINDOW

\* a check that found an expired timestamp in its key's window
C8_Witness ==
    /\ last.ip # ""
    /\ \E i \in 1..Len(last.before[last.ip]) :
          last.at - last.before[last.ip][i] >= RATE_LIMIT_WINDOW
    /\ store[last.ip] # <<>>

\* C9: a rejected check leaves its key's window equal to the unexpired part of what
\* it was, leaves every other window alone, and a check at the time the oldest of the
\* last RATE_LIMIT_MAX timestamps expires would still find room
C9_RejectRecordsNothing ==
    (last.ip # "" /\ ~last.admitted) =>
        LET w0 == last.before[last.ip]
            kept == SelectSeq(w0, LAMBDA x : last.at - x < RATE_LIMIT_WINDOW)
            again == kept[Len(kept) - RATE_LIMIT_MAX + 1] + RATE_LIMIT_WINDOW
        IN /\ store[last.ip] = kept
           /\ \A k \in Keys \ {last.ip} : store[k] = last.before[k]
           /\ Cardinality(Fresh(store[last.ip], again)) < RATE_LIMIT_MAX

\* a check rejected later than the timestamps it found, while another key holds
\* timestamps
C9_Witness ==
    /\ last.ip # ""
    /\ ~last.admitted
    /\ \A i \in 1..Len(store[last.ip]) : store[last.ip][i] < last.at
    /\ \E k \in Keys \ {last.ip} : store[k] # <<>>

-----------------------------------------------------------------------------
(* Claims about concurrent admission checks (SpecConc) *)

\* C1: at any time, for every key, at most RATE_LIMIT_MAX admitted checks have a
\* timestamp less than RATE_LIMIT_WINDOW old
C1_NeverOverAdmits ==
    \A k \in Keys : Cardinality(Fresh(admlog[k], now)) <= RATE_LIMIT_MAX

-----------------------------------------------------------------------------
(* Claims about the request pipeline (SpecReq) *)

\* the upload checks in the order the claims give them
CheckOrder == <<"presence", "filename", "extension", "mime", "content">>

\* the file names of Filenames whose extension is on the allow-list
AllowedNames == {F_a_jpg, F_b_PNG}

\* the declared types of ContentTypes that pass: none declared, or an allowed one
PassingTypes == {"", "image/png"}

\* the reason of the first of the first four checks that request r fails, "" when
\* it passes them all
EarlyReason(r) ==
    IF ~r.hasImage THEN MSG_NO_IMAGE
    ELSE IF r.filename = F_empty THEN MSG_NO_FILE
    ELSE IF r.filename \notin AllowedNames THEN MSG_UNSUPPORTED
    ELSE IF r.content_type \notin PassingTypes THEN MSG_INVALID_TYPE
    ELSE ""

\* the request reached the upload checks: admitted, and its body read
Reached(r) == r.admitted /\ ~r.oversized

\* C3: once the handler has returned, the file it named does not exist
C3_ArtifactGone ==
    (req.pc = "done" /\ req.filepath # None) => req.filepath \notin files

\* the handler returned after the classifier raised with the file on disk
C3_Witness ==
    /\ req.pc = "done"
    /\ req.created
    /\ req.raised
    /\ req.filepath \notin files

\* C4: the checks run in the fixed order; a rejected request carries the reason of
\* the first check it fails; no file is created unless the first four checks pass;
\* bytes that are no image, under an allowed name and type, pass the first four
\* checks and are answered 400 'not a valid image' by the content check
C4_FirstFailureReported ==
    /\ req.ran = SubSeq(CheckOrder, 1, Len(req.ran))
    /\ (req.created \/ req.filepath # None \/ files # {}) =>
            (Reached(req) /\ EarlyReason(req) = "" /\ Len(req.ran) >= 4)
    /\ (req.pc = "done" /\ Reached(req)) =>
          /\ EarlyReason(req) # "" =>
                (req.status = 400 /\ req.error = EarlyReason(req) /\ ~req.created)
          /\ req.status = 400 =>
                req.error = (IF EarlyReason(req) # "" THEN EarlyReason(req) ELSE MSG_NOT_IMAGE)
          /\ (EarlyReason(req) = "" /\ req.bytes = "garbage") =>
                /\ ~req.invoked
                /\ req.status \in {400, 500}
                /\ req.saved => (req.status = 400 /\ req.error = MSG_NOT_IMAGE
                                    /\ req.ran = CheckOrder)
                /\ req.status = 500 => ~req.saved
          /\ (req.status = 400 /\ req.error = MSG_NOT_IMAGE) =>
                (req.bytes = "garbage" /\ req.ran = CheckOrder)

\* a request failing three checks is answered with the reason of the earliest
C4_Witness ==
    /\ req.pc = "done"
    /\ req.filename = F_c_exe
    /\ req.content_type = "text/plain"
    /\ req.bytes = "garbage"
    /\ req.status = 400
    /\ req.error = MSG_UNSUPPORTED

PriorRequests ==
    LET log == admlog[ClientKey(req.addr)]
    IN IF req.admitted THEN SubSeq(log, 1, Len(log) - 1) ELSE log

\* C10: nothing of a request happens before its admission check; a rejected request
\* creates no file and calls no classifier; each admitted request adds exactly one
\* timestamp to its client's window whatever its outcome; and a request that follows
\* RATE_LIMIT_MAX admitted ones in the window is rejected whatever it uploads
C10_AdmissionFirst ==
    /\ (req.ran # <<>> \/ req.created \/ req.invoked \/ req.filepath # None) => req.admitted
    /\ req.status = 429 =>
            (~req.created /\ ~req.invoked /\ req.filepath = None /\ req.ran = <<>>
                /\ files = {})
    /\ req.pc = "done" =>
          LET ip == ClientKey(req.addr)
              kept == SelectSeq(req.before, LAMBDA x : req.at - x < RATE_LIMIT_WINDOW)
          IN /\ req.status # 429 => store[ip] = Append(kept, req.at)
             /\ req.status = 429 => store[ip] = kept
             /\ store[ip] = SelectSeq(admlog[ip], LAMBDA x : req.at - x < RATE_LIMIT_WINDOW)
             /\ Cardinality(Fresh(PriorRequests, req.at)) >= RATE_LIMIT_MAX
                    => req.status = 429

\* after RATE_LIMIT_MAX uploads answered 400 in the window, a valid image is
\* answered 429
C10_Witness ==
    /\ req.pc = "done"
    /\ req.status = 429
    /\ invalidRun[ClientKey(req.addr)] = RATE_LIMIT_MAX
    /\ ~req.oversized /\ req.hasImage
    /\ req.filename = F_a_jpg
    /\ req.content_type = "image/png"
    /\ req.bytes = "image"

-----------------------------------------------------------------------------
(* Claims about prediction and display (SpecLabel) *)

\* the labels of Labels and SampleDist that, lower-cased, contain 'melanoma',
\* 'carcinoma' or 'actinic'
UrgentLabels ==
    {K_melanoma, L_MELANOMA, L_Basal_cell_carcinoma, L_basal_cell_carcinoma_hf,
     K_basal_cell_carcinoma}

\* the greatest probability of classifier output d
MaxProb(d) == CHOOSE p \in {d[i].prob : i \in 1..Len(d)} : \A i \in 1..Len(d) : d[i].prob <= p

\* C6: the flag is true exactly when the top-1 label is one of the labels that
\* contain a keyword, whatever the other entries and the risk tiers are; for the
\* sample distribution with top_k 5 melanoma comes first, with risk 'Malignant' and
\* the flag true
C6_UrgentFlagTop1 ==
    /\ lab.pc = "shown" =>
          /\ lab.results[1].confidence = MaxProb(lab.dist)
          /\ lab.is_concerning <=> (lab.results[1].label \in UrgentLabels)
          /\ lab.results[1].label = L_Basal_cell_carcinoma => lab.is_concerning
          /\ lab.results[1].label = L_Dermatofibroma => ~lab.is_concerning
          /\ (lab.dist = SampleDist /\ lab.top_k = TOP_K) =>
                /\ Len(lab.results) = 5
                /\ lab.results[1].label = K_melanoma
                /\ lab.risks[1] = "Malignant"
                /\ lab.is_concerning
    /\ (lab.pc = "web" /\ lab.dist = SampleDist) =>
          /\ Len(lab.predictions) = 5
          /\ lab.predictions[1].label = K_melanoma
          /\ lab.predictions[1].risk = "Malignant"

\* the top-1 label is 'Dermatofibroma', a carcinoma comes second, and the flag is
\* false
C6_Witness ==
    /\ lab.pc = "shown"
    /\ Len(lab.results) = 2
    /\ lab.results[1].label = L_Dermatofibroma
    /\ lab.results[2].label = L_Basal_cell_carcinoma
    /\ lab.risks = <<"Benign", "Malignant">>
    /\ ~lab.is_concerning

\* the taxonomy row, by its number in table order, that each label of Labels and
\* SampleDist is to match; 0 for none
ExpectedRow(label) ==
    CASE label = K_melanoma -> 4
      [] label = L_MELANOMA -> 4
      [] label = L_Melanocytic_Nevus -> 5
      [] label = K_nevus -> 5
      [] label = L_Basal_cell_carcinoma -> 2
      [] label = K_basal_cell_carcinoma -> 2
      [] label = L_Dermatofibroma -> 3
      [] label = K_dermatofibroma -> 3
      [] label = K_vascular_lesion -> 8
      [] label = L_keratosis -> 1
      [] label = L_xyz_unknown_123 -> 0
      [] label = L_basal_cell_carcinoma_hf -> 0

\* the annotation of a label matched to table row n
ExpectedInfo(n) ==
    IF n = 0 THEN [risk |-> "Unknown", description |-> "", recommendation |-> ""]
    ELSE [risk |-> CLASS_INFO[n].risk, description |-> CLASS_INFO[n].description,
          recommendation |-> CLASS_INFO[n].recommendation]

\* C7: every returned prediction carries the risk, description and recommendation of
\* the first table row matching its label in either direction, and 'Unknown' with
\* empty texts when no row matches; 'melanoma' is 'Malignant', 'Melanocytic Nevus'
\* is 'Benign', 'xyz-unknown-123' is 'Unknown'
C7_TaxonomyLookup ==
    lab.pc = "web" =>
        \A i \in 1..Len(lab.predictions) :
            LET p == lab.predictions[i]
                l == Lower(p.label)
                rows == {n \in 1..Len(CLASS_INFO) :
                            \/ \E k \in 0..(Len(l) - Len(CLASS_INFO[n].key)) :
                                  SubSeq(l, k + 1, k + Len(CLASS_INFO[n].key)) = CLASS_INFO[n].key
                            \/ \E k \in 0..(Len(CLASS_INFO[n].key) - Len(l)) :
                                  SubSeq(CLASS_INFO[n].key, k + 1, k + Len(l)) = l}
                info == [risk |-> p.risk, description |-> p.description,
                         recommendation |-> p.recommendation]
            IN /\ info = ExpectedInfo(ExpectedRow(p.label))
               /\ rows = {} => ExpectedRow(p.label) = 0
               /\ rows # {} => (ExpectedRow(p.label) \in rows
                                   /\ \A n \in rows : ExpectedRow(p.label) <= n)
               /\ p.label = K_melanoma => p.risk = "Malignant"
               /\ p.label = L_Melanocytic_Nevus =>
                      (p.risk = "Benign" /\ p.description = CLASS_INFO[5].description)
               /\ p.label = L_xyz_unknown_123 =>
                      (p.risk = "Unknown" /\ p.description = "" /\ p.recommendation = "")

\* 'Melanocytic Nevus' annotated 'Benign' beside 'keratosis', which two rows match
\* and which takes the first one's 'Pre-cancerous'
C7_Witness ==
    /\ lab.pc = "web"
    /\ Len(lab.predictions) = 2
    /\ lab.predictions[1].label = L_Melanocytic_Nevus
    /\ lab.predictions[1].risk = "Benign"
    /\ lab.predictions[2].label = L_keratosis
    /\ lab.predictions[2].risk = "Pre-cancerous"

=============================================================================
